---- MODULE Spec2Model ----
(***************************************************************************)
(* The two loss-curve generators of                                        *)
(* taguchi_loss_function_function_development.ipynb:                       *)
(*   taguchi_loss_function(data, USL, LSL, ...)                            *)
(*   one_sided_loss_function(data, target, spec_limit, ...)                *)
(*                                                                         *)
(* Numbers.  The generators compute on floats; the model computes on      *)
(* exact fixed-point numbers.  A quantity of the quality characteristic   *)
(* (a bound, a margin, an observation, the mean, the standard deviation)  *)
(* is an integer number of TENTHS.  A square of two such quantities is in  *)
(* hundredths and tolerance * square is in thousandths.  k is a whole     *)
(* number.  A float that may be NaN is a tuple: << >> is NaN and <<n>> is  *)
(* the number n.                                                           *)
(***************************************************************************)
EXTENDS Integers, Sequences, FiniteSets, TLC

VARIABLES
    args,         \* the arguments of the pending or last invocation
    pc,           \* "ready": arguments chosen, not yet invoked; "done": invoked
    output_dict,  \* << >> while nothing was returned, else <<[Results, LossCurve]>>
    error,        \* "none", or the exception the invocation ended in
    figure,       \* the artists drawn on the chart, in drawing order
    prev          \* << >>, or <<the previous invocation's args, output_dict, error>>

vars == <<args, pc, output_dict, error, figure, prev>>

---------------------------------------------------------------------------
(* Bounds of the model and the sets the arguments are drawn from.          *)

\* longest sample set
MaxLen == 2

\* observations, in tenths
DataVals == {0, 5, 10}

\* USL, LSL, target, spec_limit, in tenths
BoundVals == {0, 5, 10}

\* spec_buffer, below_target, past_spec, in tenths
MarginVals == {0, 20}

\* k
KVals == {1, 2}

\* round_value
RoundVals == {0, 1}

\* the containers that offer data.mean() and data.std()
Containers == {"ndarray", "Series"}

---------------------------------------------------------------------------
(* Floats that may be NaN.                                                 *)

NaN == << >>

IsNaN(f) == f = << >>

\* comparisons of a float with a number: every comparison with NaN is False
FLe(f, n) == ~IsNaN(f) /\ f[1] <= n
FLt(f, n) == ~IsNaN(f) /\ f[1] < n
FGe(f, n) == ~IsNaN(f) /\ f[1] >= n
FGt(f, n) == ~IsNaN(f) /\ f[1] > n

\* 10^-round_value, in tenths (round_value 0: units; round_value 1: tenths)
Quantum(round_value) == IF round_value = 0 THEN 10 ELSE 1

\* round(num/den, ndigits): the multiple of q nearest to num/den (den > 0),
\* a tie going to the even multiple
Round(num, den, q) ==
    LET f == num \div (den * q)
        r == num - f * den * q
    IN  IF 2 * r < den * q THEN f * q
        ELSE IF 2 * r > den * q THEN (f + 1) * q
        ELSE IF f % 2 = 0 THEN f * q ELSE (f + 1) * q

\* round(sqrt(num/den), ndigits) for num >= 0, den > 0: the multiple m*q of q
\* nearest to the square root, a tie going to the even multiple
SqrtRound(num, den, q) ==
    LET Near(m) == /\ (m = 0 \/ (2 * m - 1) * (2 * m - 1) * q * q * den <= 4 * num)
                   /\ 4 * num <= (2 * m + 1) * (2 * m + 1) * q * q * den
        c == {m \in 0..(num \div den + 1) : Near(m)}
    IN  q * (IF Cardinality(c) = 1 THEN CHOOSE m \in c : TRUE
             ELSE CHOOSE m \in c : m % 2 = 0)

---------------------------------------------------------------------------
(* data.mean() and data.std(), rounded.                                    *)

RECURSIVE Sum(_)
Sum(s) == IF s = << >> THEN 0 ELSE Head(s) + Sum(Tail(s))

RECURSIVE SumSq(_)
SumSq(s) == IF s = << >> THEN 0 ELSE Head(s) * Head(s) + SumSq(Tail(s))

\* the delta degrees of freedom of data.std(): numpy divides by n, pandas by n - 1
Ddof(container) == IF container = "Series" THEN 1 ELSE 0

\* RoundedMean that truncates the mean to a tenth whatever round_value is
RoundedMean_Truncated(data, round_value) ==
    IF Len(data.values) = 0 THEN NaN
    ELSE <<Sum(data.values) \div Len(data.values)>>

\* mean = round(data.mean(), round_value); the mean of no observations is NaN
RoundedMean(data, round_value) ==
    IF Len(data.values) = 0 THEN NaN
    ELSE <<Round(Sum(data.values), Len(data.values), Quantum(round_value))>>

\* std = round(data.std(), round_value); NaN when n - ddof = 0 or n = 0
RoundedStd(data, round_value) ==
    LET n == Len(data.values)
        S == Sum(data.values)
    IN  IF n = 0 \/ n - Ddof(data.container) = 0 THEN NaN
        ELSE <<SqrtRound(n * SumSq(data.values) - S * S,
                         n * (n - Ddof(data.container)), Quantum(round_value))>>

---------------------------------------------------------------------------
(* The loss curves.  x_values = np.linspace(lo, hi, 500): point i is       *)
(* lo + (i-1)*(hi-lo)/499.  An x-value is kept as its numerator over       *)
(* 499 tenths, and a y-value as its numerator over 499^2 thousandths.      *)
(* A data frame is the record of its columns.                             *)

\* the number of points of np.linspace
NPoints == 500

\* the numerator of a number of tenths, over NPoints - 1
Fine(v) == (NPoints - 1) * v

linspace(lo, hi) == [i \in 1..NPoints |-> Fine(lo) + (i - 1) * (hi - lo)]

\* tolerance = USL - LSL
TaguchiTolerance(USL, LSL) == USL - LSL

\* target = round(LSL + (tolerance/2), round_value)
TaguchiTarget(USL, LSL, round_value) ==
    Round(2 * LSL + TaguchiTolerance(USL, LSL), 2, Quantum(round_value))

\* the body of the loop of taguchi_loss_function, for one value of x_values;
\* value, USL, LSL and target are numerators over NPoints - 1, tolerance is in tenths
TaguchiLoss(value, USL, LSL, tolerance, target) ==
    IF value <= LSL
    THEN tolerance * (target - LSL) * (target - LSL)
    ELSE IF value >= USL
    THEN tolerance * (USL - target) * (USL - target)
    ELSE tolerance * (value - target) * (value - target)

\* loss_curve_df of taguchi_loss_function
TaguchiCurve(a) ==
    LET x_values  == linspace(a.LSL - a.spec_buffer, a.USL + a.spec_buffer)
        tolerance == TaguchiTolerance(a.USL, a.LSL)
        target    == Fine(TaguchiTarget(a.USL, a.LSL, a.round_value))
        USL       == Fine(a.USL)
        LSL       == Fine(a.LSL)
    IN  [x_values |-> x_values,
         y_values |-> [i \in 1..NPoints |->
                       TaguchiLoss(x_values[i], USL, LSL, tolerance, target)]]

\* TaguchiSlope with a mean on a limit counted as inside the limits
TaguchiSlope_Strict(mean, USL, LSL, tolerance, target, round_value) ==
    IF FLt(mean, LSL) \/ FGt(mean, USL) THEN <<0>>
    ELSE IF IsNaN(mean) THEN NaN
    ELSE <<Round(tolerance * (mean[1] - target) * (mean[1] - target),
                 1, 100 * Quantum(round_value))>>

\* slope of taguchi_loss_function, in thousandths
TaguchiSlope(mean, USL, LSL, tolerance, target, round_value) ==
    IF FLe(mean, LSL) \/ FGe(mean, USL) THEN <<0>>
    ELSE IF IsNaN(mean) THEN NaN
    ELSE <<Round(tolerance * (mean[1] - target) * (mean[1] - target),
                 1, 100 * Quantum(round_value))>>

\* loss = round(k*std**2 + (mean - target)**2, round_value), in tenths
AverageLoss(k, std, mean, target, round_value) ==
    IF IsNaN(std) \/ IsNaN(mean) THEN NaN
    ELSE <<Round(k * std[1] * std[1] + (mean[1] - target) * (mean[1] - target),
                 10, Quantum(round_value))>>

\* TaguchiResults that computes the mean only when the mean is drawn
TaguchiResults_MeanIfShown(a) ==
    LET tolerance == TaguchiTolerance(a.USL, a.LSL)
        target    == TaguchiTarget(a.USL, a.LSL, a.round_value)
        mean      == IF a.display.show_mean
                     THEN RoundedMean(a.data, a.round_value) ELSE NaN
        std       == RoundedStd(a.data, a.round_value)
    IN  [Mean       |-> mean,
         s          |-> std,
         AveLoss    |-> AverageLoss(a.k, std, mean, target, a.round_value),
         SlopeAtAve |-> TaguchiSlope(mean, a.USL, a.LSL, tolerance, target,
                                     a.round_value)]

\* output_df of taguchi_loss_function: the Values of the rows
\* Mean, s, Ave. Loss (tenths) and Slope at Ave. (thousandths)
TaguchiResults(a) ==
    LET tolerance == TaguchiTolerance(a.USL, a.LSL)
        target    == TaguchiTarget(a.USL, a.LSL, a.round_value)
        mean      == RoundedMean(a.data, a.round_value)
        std       == RoundedStd(a.data, a.round_value)
    IN  [Mean       |-> mean,
         s          |-> std,
         AveLoss    |-> AverageLoss(a.k, std, mean, target, a.round_value),
         SlopeAtAve |-> TaguchiSlope(mean, a.USL, a.LSL, tolerance, target,
                                     a.round_value)]

\* the chart of taguchi_loss_function: the drawing calls made, in order
TaguchiFigure(d) ==
    <<"lineplot">>
    \o (IF d.show_mean THEN <<"scatterplot">> ELSE << >>)
    \o (IF d.show_kde THEN <<"kdeplot">> ELSE << >>)
    \o <<"axvline">>
    \o (IF d.show_annotations THEN <<"annotations">> ELSE << >>)
    \o (IF d.show_loss_annotation THEN <<"loss_annotation">> ELSE << >>)
    \o (IF d.show_spec_limit_xticks THEN <<"xticks">> ELSE << >>)
    \o (IF d.show_yticks THEN <<"yticks">> ELSE << >>)
    \o <<"show">>

---------------------------------------------------------------------------
(* one_sided_loss_function.                                                *)

Max(a, b) == IF a >= b THEN a ELSE b

\* tolerance = spec_limit - target
OneSidedTolerance(spec_limit, target) == spec_limit - target

\* OneSidedLoss without the cap at spec_limit
OneSidedLoss_Uncapped(value, target, spec_limit, tolerance) ==
    IF value <= target
    THEN 0
    ELSE tolerance * Max(0, (value - target) * (value - target))

\* the body of the loop of one_sided_loss_function, for one value of x_values;
\* value, target and spec_limit are numerators over NPoints - 1, tolerance is in
\* tenths
OneSidedLoss(value, target, spec_limit, tolerance) ==
    IF value >= spec_limit
    THEN tolerance * (spec_limit - target) * (spec_limit - target)
    ELSE IF value <= target
    THEN 0
    ELSE tolerance * Max(0, (value - target) * (value - target))

\* loss_curve_df of one_sided_loss_function
OneSidedCurve(a) ==
    LET x_values  == linspace(a.target - a.below_target, a.spec_limit + a.past_spec)
        tolerance == OneSidedTolerance(a.spec_limit, a.target)
        target     == Fine(a.target)
        spec_limit == Fine(a.spec_limit)
    IN  [x_values |-> x_values,
         y_values |-> [i \in 1..NPoints |->
                       OneSidedLoss(x_values[i], target, spec_limit, tolerance)]]

\* OneSidedSlopeBound with the middle branch target < mean < spec_limit
OneSidedSlopeBound_Strict(mean, target, spec_limit) ==
    \/ FLe(mean, target)
    \/ (FGt(mean, target) /\ FLt(mean, spec_limit))
    \/ FGt(mean, spec_limit)

\* whether the if/elif/elif chain of one_sided_loss_function assigns slope:
\* the chain has no else, and every comparison with a NaN mean is False
OneSidedSlopeBound(mean, target, spec_limit) ==
    \/ FLe(mean, target)
    \/ (FGt(mean, target) /\ FLe(mean, spec_limit))
    \/ FGt(mean, spec_limit)

\* OneSidedSlope with a mean past spec_limit given the capped loss
OneSidedSlope_Capped(mean, target, spec_limit, tolerance) ==
    IF FLe(mean, target) THEN <<0>>
    ELSE IF FGt(mean, target) /\ FLe(mean, spec_limit)
    THEN <<tolerance * (mean[1] - target) * (mean[1] - target)>>
    ELSE <<tolerance * (spec_limit - target) * (spec_limit - target)>>

\* OneSidedSlope with the middle branch target < mean < spec_limit
OneSidedSlope_StrictLimit(mean, target, spec_limit, tolerance) ==
    IF FLe(mean, target) THEN <<0>>
    ELSE IF FGt(mean, target) /\ FLt(mean, spec_limit)
    THEN <<tolerance * (mean[1] - target) * (mean[1] - target)>>
    ELSE <<0>>

\* slope of one_sided_loss_function where the chain assigns it, in thousandths
OneSidedSlope(mean, target, spec_limit, tolerance) ==
    IF FLe(mean, target) THEN <<0>>
    ELSE IF FGt(mean, target) /\ FLe(mean, spec_limit)
    THEN <<tolerance * (mean[1] - target) * (mean[1] - target)>>
    ELSE <<0>>

\* OneSidedAverageLoss with a mean at target counted as below target
OneSidedAverageLoss_Le(k, std, mean, target, round_value) ==
    IF FLe(mean, target) THEN <<0>>
    ELSE AverageLoss(k, std, mean, target, round_value)

\* loss of one_sided_loss_function, in tenths
OneSidedAverageLoss(k, std, mean, target, round_value) ==
    IF FLt(mean, target) THEN <<0>>
    ELSE AverageLoss(k, std, mean, target, round_value)

\* output_df of one_sided_loss_function: the Values of the rows
\* Mean, s, Ave. Loss (tenths) and Slope at Ave. (thousandths)
OneSidedResults(a) ==
    LET tolerance == OneSidedTolerance(a.spec_limit, a.target)
        mean      == RoundedMean(a.data, a.round_value)
        std       == RoundedStd(a.data, a.round_value)
    IN  [Mean       |-> mean,
         s          |-> std,
         AveLoss    |-> OneSidedAverageLoss(a.k, std, mean, a.target, a.round_value),
         SlopeAtAve |-> OneSidedSlope(mean, a.target, a.spec_limit, tolerance)]

\* the chart of one_sided_loss_function: the drawing calls made, in order, up to
\* the first use of slope when slope is unbound (scatterplot, then the loss
\* annotation, then the results table after plt.show())
OneSidedFigure(d, bound) ==
    IF ~bound /\ d.show_mean THEN <<"lineplot">>
    ELSE <<"lineplot">>
         \o (IF d.show_mean THEN <<"scatterplot">> ELSE << >>)
         \o <<"kdeplot", "axvline">>
         \o (IF d.show_annotations THEN <<"annotations">> ELSE << >>)
         \o (IF ~bound /\ d.show_loss_annotation THEN << >>
             ELSE (IF d.show_loss_annotation THEN <<"loss_annotation">> ELSE << >>)
                  \o (IF d.show_xticks THEN <<"xticks">> ELSE << >>)
                  \o <<"show">>)

---------------------------------------------------------------------------
(* The arguments.                                                          *)

RECURSIVE SeqsUpTo(_, _)
SeqsUpTo(S, n) ==
    IF n = 0 THEN {<< >>}
    ELSE LET shorter == SeqsUpTo(S, n - 1)
         IN  shorter \cup {Append(s, v) : s \in shorter, v \in S}

DataSets == [values : SeqsUpTo(DataVals, MaxLen), container : Containers]

\* the display options: the defaults, each option toggled alone, all toggled
Toggles(defaults) ==
    {defaults, [f \in DOMAIN defaults |-> ~defaults[f]]}
    \cup {[defaults EXCEPT ![f] = ~@] : f \in DOMAIN defaults}

TaguchiDefaults ==
    [show_kde |-> TRUE, show_mean |-> TRUE, show_annotations |-> TRUE,
     show_loss_annotation |-> TRUE, show_spec_limit_xticks |-> TRUE,
     show_yticks |-> FALSE]

OneSidedDefaults ==
    [show_mean |-> TRUE, show_annotations |-> TRUE,
     show_loss_annotation |-> TRUE, show_xticks |-> TRUE]

TaguchiArgs(datasets, bounds, ks, margins, displays) ==
    [fn : {"taguchi_loss_function"}, data : datasets,
     USL : bounds, LSL : bounds, k : ks, round_value : RoundVals,
     spec_buffer : margins, display : displays]

OneSidedArgs(datasets, bounds, ks, margins, displays) ==
    [fn : {"one_sided_loss_function"}, data : datasets,
     target : bounds, spec_limit : bounds, k : ks, round_value : RoundVals,
     below_target : margins, past_spec : margins, display : displays]

\* the arguments without the display options
Numeric(a) == [f \in DOMAIN a \ {"display"} |-> a[f]]

---------------------------------------------------------------------------
(* The state machine.  An invocation is one step: the generators are       *)
(* straight-line code that shares nothing with other invocations.          *)

Init ==
    /\ args \in TaguchiArgs(DataSets, BoundVals, KVals, MarginVals,
                            {TaguchiDefaults})
                \cup OneSidedArgs(DataSets, BoundVals, KVals, MarginVals,
                                  {OneSidedDefaults})
    /\ pc = "ready"
    /\ output_dict = << >>
    /\ error = "none"
    /\ figure = << >>
    /\ prev = << >>

taguchi_loss_function ==
    /\ pc = "ready"
    /\ args.fn = "taguchi_loss_function"
    /\ output_dict' = <<[Results |-> TaguchiResults(args),
                         LossCurve |-> TaguchiCurve(args)]>>
    /\ error' = "none"
    /\ figure' = TaguchiFigure(args.display)
    /\ pc' = "done"
    /\ UNCHANGED <<args, prev>>

one_sided_loss_function ==
    /\ pc = "ready"
    /\ args.fn = "one_sided_loss_function"
    /\ LET bound == OneSidedSlopeBound(RoundedMean(args.data, args.round_value),
                                       args.target, args.spec_limit)
       IN  /\ figure' = OneSidedFigure(args.display, bound)
           /\ IF bound
              THEN /\ output_dict' = <<[Results |-> OneSidedResults(args),
                                        LossCurve |-> OneSidedCurve(args)]>>
                   /\ error' = "none"
              ELSE /\ output_dict' = << >>
                   /\ error' = "UnboundLocalError"
    /\ pc' = "done"
    /\ UNCHANGED <<args, prev>>

Next ==
    \/ taguchi_loss_function
    \/ one_sided_loss_function

Spec == Init /\ [][Next]_vars

---------------------------------------------------------------------------
(* A session: after an invocation the caller invokes the same generator    *)
(* again on the same data, bounds and k, with any display options and any  *)
(* round_value.  prev remembers the invocation before.                     *)

\* sample sets and bounds of a session
SessionData == {[values |-> << >>, container |-> "Series"],
                [values |-> <<5>>, container |-> "ndarray"]}

SessionBounds == {0, 10}

SessionInit ==
    /\ args \in TaguchiArgs(SessionData, SessionBounds, {1}, {0},
                            {TaguchiDefaults})
                \cup OneSidedArgs(SessionData, SessionBounds, {1}, {0},
                                  {OneSidedDefaults})
    /\ pc = "ready"
    /\ output_dict = << >>
    /\ error = "none"
    /\ figure = << >>
    /\ prev = << >>

NextCall ==
    /\ pc = "done"
    /\ \E round_value \in RoundVals,
          display \in IF args.fn = "taguchi_loss_function"
                      THEN Toggles(TaguchiDefaults) ELSE Toggles(OneSidedDefaults) :
          args' = [args EXCEPT !.round_value = round_value, !.display = display]
    /\ prev' = <<[args |-> args, output_dict |-> output_dict, error |-> error]>>
    /\ pc' = "ready"
    /\ output_dict' = << >>
    /\ error' = "none"
    /\ figure' = << >>

SessionNext ==
    \/ taguchi_loss_function
    \/ one_sided_loss_function
    \/ NextCall

SessionSpec == SessionInit /\ [][SessionNext]_vars

---------------------------------------------------------------------------
(* The claims.                                                             *)

\* the last invocation returned its record
Returned == pc = "done" /\ output_dict # << >>

Results == output_dict[1].Results

LossCurve == output_dict[1].LossCurve

Taguchi == args.fn = "taguchi_loss_function"

OneSided == args.fn = "one_sided_loss_function"

\* the range the specification calls invalid
InvalidRange ==
    IF Taguchi THEN args.USL <= args.LSL ELSE args.spec_limit <= args.target

\* C1: an invocation with USL <= LSL (taguchi_loss_function) or with
\* spec_limit <= target (one_sided_loss_function) ends in an InvalidRange
\* error and returns no record.  (Stated for a non-empty sample set, so that
\* the range is the only thing wrong with the arguments.)
C1_InvalidRangeRejected ==
    (pc = "done" /\ InvalidRange /\ Len(args.data.values) > 0) =>
        (error = "InvalidRange" /\ output_dict = << >>)

\* C2: an invocation on an empty sample set ends in an EmptySample error and
\* returns no record.  (Stated for a valid range, so that the empty sample
\* set is the only thing wrong with the arguments.)
C2_EmptySampleRejected ==
    (pc = "done" /\ Len(args.data.values) = 0 /\ ~InvalidRange) =>
        (error = "EmptySample" /\ output_dict = << >>)

\* C3: every y-value of every returned loss curve is >= 0.  (Stated for a
\* non-empty sample set.)
C3_LossNonNegative ==
    (Returned /\ Len(args.data.values) > 0) =>
        \A i \in 1..NPoints : LossCurve.y_values[i] >= 0

\* the loss taguchi_loss_function gives the abscissa x (a numerator over
\* NPoints - 1) under the arguments of the last invocation
TaguchiLossAt(x) ==
    TaguchiLoss(x, Fine(args.USL), Fine(args.LSL),
                TaguchiTolerance(args.USL, args.LSL),
                Fine(TaguchiTarget(args.USL, args.LSL, args.round_value)))

\* C4: for USL > LSL and every round_value the two-sided curve is flat outside
\* [LSL, USL] (every x <= LSL has the loss of LSL, every x >= USL the loss of
\* USL), the two flat values are equal, and the loss at the mirror image of
\* every x about target is the loss at x.  (Stated for a non-empty sample
\* set.)
C4_FlatAndSymmetric ==
    (Returned /\ Taguchi /\ args.USL > args.LSL /\ Len(args.data.values) > 0) =>
        LET x == LossCurve.x_values
            y == LossCurve.y_values
            target == Fine(TaguchiTarget(args.USL, args.LSL, args.round_value))
        IN  /\ \A i \in 1..NPoints :
                 /\ x[i] <= Fine(args.LSL) => y[i] = TaguchiLossAt(Fine(args.LSL))
                 /\ x[i] >= Fine(args.USL) => y[i] = TaguchiLossAt(Fine(args.USL))
                 /\ y[i] = TaguchiLossAt(2 * target - x[i])
            /\ TaguchiLossAt(Fine(args.LSL)) = TaguchiLossAt(Fine(args.USL))

\* C5: for spec_limit > target the one-sided curve is 0 at every x <= target,
\* tolerance * (spec_limit - target)^2 at every x >= spec_limit, and
\* tolerance * (x - target)^2 at every x strictly between them.
C5_OneSidedCurve ==
    (Returned /\ OneSided /\ args.spec_limit > args.target) =>
        LET x == LossCurve.x_values
            y == LossCurve.y_values
            tolerance == args.spec_limit - args.target
        IN  \A i \in 1..NPoints :
              /\ x[i] = Fine(args.target - args.below_target)
                        + (i - 1) * (args.spec_limit + args.past_spec
                                     - (args.target - args.below_target))
              /\ x[i] <= Fine(args.target) => y[i] = 0
              /\ x[i] >= Fine(args.spec_limit) =>
                    y[i] = tolerance * Fine(tolerance) * Fine(tolerance)
              /\ (Fine(args.target) < x[i] /\ x[i] < Fine(args.spec_limit)) =>
                    y[i] = tolerance * (x[i] - Fine(args.target))
                                     * (x[i] - Fine(args.target))

\* C5's case: a returned one-sided curve whose first x-value is target, whose
\* last x-value is spec_limit, and that has points strictly between them
C5_Witness ==
    /\ Returned /\ OneSided /\ args.spec_limit > args.target
    /\ LossCurve.x_values[1] = Fine(args.target)
    /\ LossCurve.x_values[NPoints] = Fine(args.spec_limit)
    /\ LossCurve.y_values[NPoints] > LossCurve.y_values[2]
    /\ LossCurve.y_values[2] > 0

\* C6: in taguchi_loss_function the slope at the mean is 0 when the rounded
\* mean is <= LSL or >= USL (a mean on a limit included), and
\* round(tolerance * (mean - target)^2, round_value) when LSL < mean < USL.
C6_TaguchiSlope ==
    (Returned /\ Taguchi /\ ~IsNaN(Results.Mean)) =>
        LET mean      == Results.Mean[1]
            tolerance == args.USL - args.LSL
            target    == TaguchiTarget(args.USL, args.LSL, args.round_value)
        IN  /\ (mean <= args.LSL \/ mean >= args.USL) => Results.SlopeAtAve = <<0>>
            /\ (args.LSL < mean /\ mean < args.USL) =>
                  Results.SlopeAtAve =
                      <<Round(tolerance * (mean - target) * (mean - target),
                              1, 100 * Quantum(args.round_value))>>

\* C6's case: a returned two-sided record whose rounded mean is exactly USL,
\* away from target, with slope 0
C6_Witness ==
    /\ Returned /\ Taguchi /\ args.USL > args.LSL
    /\ Results.Mean = <<args.USL>>
    /\ TaguchiTarget(args.USL, args.LSL, args.round_value) # args.USL
    /\ Results.SlopeAtAve = <<0>>

\* C7: in one_sided_loss_function, for every finite mean the slope is assigned
\* (the invocation returns): it is 0 when mean <= target,
\* tolerance * (mean - target)^2 when target < mean <= spec_limit, and 0 when
\* mean > spec_limit.
C7_OneSidedSlope ==
    (pc = "done" /\ OneSided /\ Len(args.data.values) > 0) =>
        /\ error = "none"
        /\ output_dict # << >>
        /\ ~IsNaN(Results.Mean)
        /\ LET mean      == Results.Mean[1]
               tolerance == args.spec_limit - args.target
           IN  /\ mean <= args.target => Results.SlopeAtAve = <<0>>
               /\ (args.target < mean /\ mean <= args.spec_limit) =>
                     Results.SlopeAtAve =
                         <<tolerance * (mean - args.target) * (mean - args.target)>>
               /\ mean > args.spec_limit => Results.SlopeAtAve = <<0>>

\* C7's case: a returned one-sided record whose rounded mean is exactly
\* spec_limit, above target
C7_Witness ==
    /\ Returned /\ OneSided /\ args.spec_limit > args.target
    /\ Results.Mean = <<args.spec_limit>>
    /\ Results.SlopeAtAve[1] > 0

\* C8: the average loss is round(k * std^2 + (mean - target)^2, round_value)
\* of the rounded mean and the rounded standard deviation:
\* taguchi_loss_function returns it for every mean; one_sided_loss_function
\* returns 0 when mean < target and it when mean >= target.
C8_AverageLoss ==
    Returned =>
        LET mean   == Results.Mean
            std    == Results.s
            target == IF Taguchi
                      THEN TaguchiTarget(args.USL, args.LSL, args.round_value)
                      ELSE args.target
            value  == IF IsNaN(mean) \/ IsNaN(std) THEN NaN
                      ELSE <<Round(args.k * std[1] * std[1]
                                   + (mean[1] - target) * (mean[1] - target),
                                   10, Quantum(args.round_value))>>
        IN  IF Taguchi THEN Results.AveLoss = value
            ELSE /\ FLt(mean, target) => Results.AveLoss = <<0>>
                 /\ FGe(mean, target) => Results.AveLoss = value

\* C8's case: a returned one-sided record whose rounded mean is exactly target
\* and whose average loss is a number other than 0
C8_Witness ==
    /\ Returned /\ OneSided /\ args.spec_limit > args.target
    /\ Results.Mean = <<args.target>>
    /\ ~IsNaN(Results.AveLoss)
    /\ Results.AveLoss[1] > 0

\* a number that is a whole multiple of q
IsMultiple(f, q) == ~IsNaN(f) /\ f[1] % q = 0

\* a number that is a whole multiple of q, or NaN
IsMultipleOrNaN(f, q) == IsNaN(f) \/ f[1] % q = 0

\* C9 as stated: every value of a returned statistics table is a whole
\* multiple of 10^-round_value.  (Stated for the tables none of whose values
\* is NaN.)
C9_AllRounded ==
    (/\ Returned
     /\ ~IsNaN(Results.Mean) /\ ~IsNaN(Results.s)
     /\ ~IsNaN(Results.AveLoss) /\ ~IsNaN(Results.SlopeAtAve)) =>
        LET q == Quantum(args.round_value)
        IN  /\ IsMultiple(Results.Mean, q)
            /\ IsMultiple(Results.s, q)
            /\ IsMultiple(Results.AveLoss, q)
            /\ IsMultiple(Results.SlopeAtAve, 100 * q)

\* C9 as amended: Mean, s and Ave. Loss of either generator and Slope at Ave.
\* of taguchi_loss_function are NaN or a whole multiple of 10^-round_value;
\* Slope at Ave. of one_sided_loss_function is 0 or the unrounded product
\* tolerance * (mean - target)^2.
C9_RoundedExceptOneSidedSlope ==
    Returned =>
        LET q == Quantum(args.round_value)
        IN  /\ IsMultipleOrNaN(Results.Mean, q)
            /\ IsMultipleOrNaN(Results.s, q)
            /\ IsMultipleOrNaN(Results.AveLoss, q)
            /\ Taguchi => IsMultipleOrNaN(Results.SlopeAtAve, 100 * q)
            /\ OneSided =>
                  \/ Results.SlopeAtAve = <<0>>
                  \/ Results.SlopeAtAve =
                        <<(args.spec_limit - args.target)
                          * (Results.Mean[1] - args.target)
                          * (Results.Mean[1] - args.target)>>

\* C9's case: a returned one-sided record whose Mean, s and Ave. Loss are
\* rounded and whose Slope at Ave. is not a whole multiple of 10^-round_value
C9_Witness ==
    /\ Returned /\ OneSided /\ args.spec_limit > args.target
    /\ IsMultiple(Results.Mean, Quantum(args.round_value))
    /\ IsMultiple(Results.s, Quantum(args.round_value))
    /\ IsMultiple(Results.AveLoss, Quantum(args.round_value))
    /\ ~IsMultiple(Results.SlopeAtAve, 100 * Quantum(args.round_value))

\* C10: two invocations of the same generator that agree on data, bounds, k,
\* round_value and margins return the same tables (and end the same way),
\* whatever their display options and whatever was invoked before.
C10_SameInputsSameTables ==
    (pc = "done" /\ prev # << >> /\ Numeric(prev[1].args) = Numeric(args)) =>
        /\ prev[1].output_dict = output_dict
        /\ prev[1].error = error

\* C10's case: two consecutive invocations with the same numeric arguments
\* and different display options, both returning their tables
C10_Witness ==
    /\ Returned /\ prev # << >>
    /\ Numeric(prev[1].args) = Numeric(args)
    /\ prev[1].args.display # args.display
    /\ prev[1].output_dict # << >>

\* the loss one_sided_loss_function gives the abscissa x (a numerator over
\* NPoints - 1) under the arguments of the last invocation
OneSidedLossAt(x) ==
    OneSidedLoss(x, Fine(args.target), Fine(args.spec_limit),
                 OneSidedTolerance(args.spec_limit, args.target))

\* the loss at the returned Mean as the generator's own loop computes it: a
\* numerator over (NPoints - 1)^2 thousandths
LossAtMean ==
    IF Taguchi THEN TaguchiLossAt(Fine(Results.Mean[1]))
    ELSE OneSidedLossAt(Fine(Results.Mean[1]))

\* C11 as stated: the slope at the mean is the loss the generator's piecewise
\* formula gives x = mean (rounded to round_value where the generator rounds
\* the slope), for a mean inside, on or outside the limits.  (Stated for a
\* valid range and a finite mean.)
C11_SlopeIsLossAtMean ==
    (Returned /\ ~InvalidRange /\ ~IsNaN(Results.Mean)) =>
        IF Taguchi
        THEN Results.SlopeAtAve =
                 <<Round(LossAtMean, (NPoints - 1) * (NPoints - 1),
                         100 * Quantum(args.round_value))>>
        ELSE Results.SlopeAtAve[1] * (NPoints - 1) * (NPoints - 1) = LossAtMean

\* C11 as amended: the slope at the mean is the loss at x = mean only for a
\* mean inside the limits, LSL < mean < USL (rounded to round_value) or
\* target < mean <= spec_limit (not rounded); for every other finite mean it
\* is 0, whatever the loss at x = mean is.
C11_SlopeIsLossInsideElseZero ==
    (Returned /\ ~IsNaN(Results.Mean)) =>
        LET mean == Results.Mean[1]
        IN  IF Taguchi
            THEN IF args.LSL < mean /\ mean < args.USL
                 THEN Results.SlopeAtAve =
                          <<Round(LossAtMean, (NPoints - 1) * (NPoints - 1),
                                  100 * Quantum(args.round_value))>>
                 ELSE Results.SlopeAtAve = <<0>>
            ELSE IF args.target < mean /\ mean <= args.spec_limit
                 THEN Results.SlopeAtAve[1] * (NPoints - 1) * (NPoints - 1)
                          = LossAtMean
                 ELSE Results.SlopeAtAve = <<0>>

\* C11's case: a returned one-sided record whose mean is past spec_limit, where
\* the loss at x = mean is the cap, above 0, and the slope is 0
C11_Witness ==
    /\ Returned /\ OneSided /\ args.spec_limit > args.target
    /\ FGt(Results.Mean, args.spec_limit)
    /\ LossAtMean > 0
    /\ Results.SlopeAtAve = <<0>>

\* C12 as stated: in one_sided_loss_function a rounded mean exactly at
\* spec_limit (spec_limit > target) gives slope 0.
C12_SlopeZeroAtSpecLimit ==
    (Returned /\ OneSided /\ args.spec_limit > args.target
     /\ Results.Mean = <<args.spec_limit>>) =>
        Results.SlopeAtAve = <<0>>

\* C12 as amended: in one_sided_loss_function a rounded mean exactly at
\* spec_limit (spec_limit > target) gives the slope
\* tolerance * (spec_limit - target)^2, which is above 0.
C12_SlopeAtSpecLimit ==
    (Returned /\ OneSided /\ args.spec_limit > args.target
     /\ Results.Mean = <<args.spec_limit>>) =>
        /\ Results.SlopeAtAve =
               <<(args.spec_limit - args.target)
                 * (args.spec_limit - args.target)
                 * (args.spec_limit - args.target)>>
        /\ Results.SlopeAtAve[1] > 0

\* C12's case: a returned one-sided record whose rounded mean is exactly
\* spec_limit although no observation is
C12_Witness ==
    /\ Returned /\ OneSided /\ args.spec_limit > args.target
    /\ Results.Mean = <<args.spec_limit>>
    /\ \A i \in 1..Len(args.data.values) : args.data.values[i] # args.spec_limit

====
